---- MODULE Spec2Model ----
(***************************************************************************)
(* The apartments REST API: ApartmentsController (HTTP handlers) on top of *)
(* ApartmentsService on top of a TypeORM repository over one MySQL table.  *)
(*                                                                         *)
(* The table is the only shared state.  A handler is a sequence of store   *)
(* operations separated by `await`; each store operation is one SQL        *)
(* statement and is atomic, and other requests may run between two of      *)
(* them.  Every action below is one store operation of one handler         *)
(* together with the handler code around it (the four aggregate queries of *)
(* the statistics report, which read the same rows, are one action).       *)
(*                                                                         *)
(* Strings are sequences of one-character strings.  An optional value      *)
(* (an omitted DTO property, a NULL column) is a sequence of length <= 1.  *)
(* A NULL timestamp is 0.  Prices and areas are whole numbers.             *)
(***************************************************************************)
EXTENDS Integers, Sequences, FiniteSets, TLC

VARIABLES
    store,      \* the apartments table: id -> row
    nextId,     \* the AUTO_INCREMENT counter of the primary key
    clock,      \* the wall clock read by `new Date()`
    reqs,       \* the HTTP requests: slot -> request (handler position, locals, response)
    fetched     \* history: id -> number of GET /apartments/:id answered 200

vars == <<store, nextId, clock, reqs, fetched>>

-----------------------------------------------------------------------------
(* Bounds of the model *)

MaxReq == 2         \* requests in flight at once under SpecConc
MaxClock == 2       \* instants of the wall clock
MaxViews == 2       \* successful fetches per record

-----------------------------------------------------------------------------
(* Optional values and strings *)

None == << >>
Some(v) == <<v>>
IsSome(o) == Len(o) > 0
Get(o) == o[1]

NullTime == 0

Uppers == <<"A","B","C","D","E","F","G","H","I","J","K","L","M",
            "N","O","P","Q","R","S","T","U","V","W","X","Y","Z">>
Lowers == <<"a","b","c","d","e","f","g","h","i","j","k","l","m",
            "n","o","p","q","r","s","t","u","v","w","x","y","z">>
Digits == <<"0","1","2","3","4","5","6","7","8","9">>

Range(f) == {f[i] : i \in DOMAIN f}

\* String.prototype.toLowerCase on one character
LowerChar(c) ==
    IF \E i \in DOMAIN Uppers : Uppers[i] = c
    THEN Lowers[CHOOSE i \in DOMAIN Uppers : Uppers[i] = c]
    ELSE c

toLowerCase(s) == [i \in DOMAIN s |-> LowerChar(s[i])]

\* The match of /[^a-z0-9]/ on one character
IsSlugChar(c) == c \in Range(Lowers) \cup Range(Digits)

\* .replace(/[^a-z0-9]+/g, '-'): every maximal run of other characters becomes one '-'
RECURSIVE CollapseRuns(_, _)
CollapseRuns(s, inRun) ==
    IF s = << >> THEN << >>
    ELSE IF IsSlugChar(Head(s)) THEN <<Head(s)>> \o CollapseRuns(Tail(s), FALSE)
    ELSE IF inRun THEN CollapseRuns(Tail(s), TRUE)
    ELSE <<"-">> \o CollapseRuns(Tail(s), TRUE)

\* Mutant of TrimDashes: only the leading '-' removed (the pattern without `|-$`)
TrimDashes_leading(s) == IF s # << >> /\ Head(s) = "-" THEN Tail(s) ELSE s

\* .replace(/(^-|-$)/g, ''): one leading and one trailing '-' are removed
TrimDashes(s) ==
    LET a == IF s # << >> /\ Head(s) = "-" THEN Tail(s) ELSE s
    IN  IF a # << >> /\ a[Len(a)] = "-" THEN SubSeq(a, 1, Len(a) - 1) ELSE a

generateSlug(unitName, unitNumber) ==
    TrimDashes(CollapseRuns(toLowerCase(unitName \o <<"-">> \o unitNumber), FALSE))

\* SQL `col LIKE '%pat%'` under MySQL's default case-insensitive collation
Like(text, pat) ==
    LET t == toLowerCase(text)
        p == toLowerCase(pat)
    IN  \E i \in 1..(Len(t) - Len(p) + 1) : SubSeq(t, i, i + Len(p) - 1) = p

-----------------------------------------------------------------------------
(* Input values *)

NameSky == <<"S","k","y">>
NameSea == <<"S","e","a"," ","2">>
ProjMH == <<"M","H">>
ProjGR == <<"G","R">>
LocDT == <<"D","T">>
LocMT == <<"M","T">>

UnitNumbers == {<<"A","-","1">>, <<"A","-","2">>}

\* The apartments the requests create, each unit with its own attributes
Units ==
    { [unitName |-> NameSky, unitNumber |-> <<"A","-","1">>, project |-> ProjMH,
       price |-> 100, bedrooms |-> 1, bathrooms |-> 1, area |-> 50,
       location |-> Some(LocDT)],
      [unitName |-> NameSea, unitNumber |-> <<"A","-","2">>, project |-> ProjGR,
       price |-> 120, bedrooms |-> 1, bathrooms |-> 2, area |-> 80,
       location |-> None] }

\* CreateApartmentDto: the validated body of POST /apartments
CreateDtos ==
    { [unitName |-> u.unitName, unitNumber |-> u.unitNumber, project |-> u.project,
       price |-> u.price, bedrooms |-> u.bedrooms, bathrooms |-> u.bathrooms,
       area |-> u.area, location |-> u.location, isAvailable |-> a]
      : u \in Units, a \in {None, Some(FALSE)} }

\* UpdateApartmentDto: every property of CreateApartmentDto, each optional
NoPatch ==
    [unitName |-> None, unitNumber |-> None, project |-> None, price |-> None,
     bedrooms |-> None, bathrooms |-> None, area |-> None, location |-> None,
     isAvailable |-> None]

UpdateDtos ==
    { [NoPatch EXCEPT !.isAvailable = Some(b)] : b \in BOOLEAN }
    \cup { [NoPatch EXCEPT !.unitNumber = Some(<<"A","-","2">>)] }

\* The ids the requests name: those of the rows the unique unit numbers allow,
\* and one no row ever has
Ids == 1..(Cardinality(UnitNumbers) + 1)

-----------------------------------------------------------------------------
(* The repository: the apartments table and its SQL statements *)

\* The predicate every read repeats: isAvailable = true AND deletedAt IS NULL
Visible(row) == row.isAvailable /\ row.deletedAt = NullTime

\* Mutant of DuplicateEntry: the table without its unique index
DuplicateEntry_noIndex(s, id, unitNumber) == FALSE

\* Mutant of DuplicateEntry: uniqueness looked at when a row is inserted only
DuplicateEntry_insertOnly(s, id, unitNumber) ==
    /\ id = 0
    /\ \E j \in DOMAIN s : toLowerCase(s[j].unitNumber) = toLowerCase(unitNumber)

\* @Index(['unitNumber'], { unique: true }): the key a row with this unitNumber
\* would duplicate, compared as the column's case-insensitive collation compares
DuplicateEntry(s, id, unitNumber) ==
    \E j \in DOMAIN s :
        j # id /\ toLowerCase(s[j].unitNumber) = toLowerCase(unitNumber)

\* repository.create(...) and the row INSERT makes of it: @BeforeInsert setDefaults,
\* the column defaults, @PrimaryGeneratedColumn and @CreateDateColumn
NewApartment(dto, id, now) ==
    [id |-> id,
     unitName |-> dto.unitName,
     unitNumber |-> dto.unitNumber,
     project |-> dto.project,
     price |-> dto.price,
     bedrooms |-> dto.bedrooms,
     bathrooms |-> dto.bathrooms,
     area |-> dto.area,
     location |-> dto.location,
     isAvailable |-> IF IsSome(dto.isAvailable) THEN Get(dto.isAvailable) ELSE TRUE,
     slug |-> generateSlug(dto.unitName, dto.unitNumber),
     viewCount |-> 0,
     isFeatured |-> FALSE,
     createdAt |-> now,
     deletedAt |-> NullTime]

\* Mutant of PatchRow: the update derives the slug again from the new values
PatchRow_reslug(row, dto) ==
    [row EXCEPT
        !.unitNumber = IF IsSome(dto.unitNumber) THEN Get(dto.unitNumber) ELSE @,
        !.isAvailable = IF IsSome(dto.isAvailable) THEN Get(dto.isAvailable) ELSE @,
        !.slug = generateSlug(row.unitName,
                              IF IsSome(dto.unitNumber) THEN Get(dto.unitNumber)
                              ELSE row.unitNumber)]

\* Mutant of PatchRow: the update also writes the entity's default viewCount
PatchRow_resetViews(row, dto) ==
    [row EXCEPT
        !.unitNumber = IF IsSome(dto.unitNumber) THEN Get(dto.unitNumber) ELSE @,
        !.isAvailable = IF IsSome(dto.isAvailable) THEN Get(dto.isAvailable) ELSE @,
        !.viewCount = 0]

\* The SET list of UPDATE for an UpdateApartmentDto: only the supplied properties
PatchRow(row, dto) ==
    [row EXCEPT
        !.unitName = IF IsSome(dto.unitName) THEN Get(dto.unitName) ELSE @,
        !.unitNumber = IF IsSome(dto.unitNumber) THEN Get(dto.unitNumber) ELSE @,
        !.project = IF IsSome(dto.project) THEN Get(dto.project) ELSE @,
        !.price = IF IsSome(dto.price) THEN Get(dto.price) ELSE @,
        !.bedrooms = IF IsSome(dto.bedrooms) THEN Get(dto.bedrooms) ELSE @,
        !.bathrooms = IF IsSome(dto.bathrooms) THEN Get(dto.bathrooms) ELSE @,
        !.area = IF IsSome(dto.area) THEN Get(dto.area) ELSE @,
        !.location = IF IsSome(dto.location) THEN dto.location ELSE @,
        !.isAvailable = IF IsSome(dto.isAvailable) THEN Get(dto.isAvailable) ELSE @]

\* repository.update(id, dto): UPDATE apartments SET ... WHERE id = :id
\* (no row with that id: no row is changed and nothing is thrown)
repositoryUpdate(s, id, dto) ==
    IF id \in DOMAIN s THEN [s EXCEPT ![id] = PatchRow(@, dto)] ELSE s

\* repository.update(id, { isAvailable: false, deletedAt: new Date() })
markDeleted(s, id, now) ==
    IF id \in DOMAIN s
    THEN [s EXCEPT ![id].isAvailable = FALSE, ![id].deletedAt = now]
    ELSE s

\* Mutant of findOneWithDetails: the lookup without `deletedAt: IsNull()`
findOneWithDetails_available(s, id) ==
    IF id \in DOMAIN s /\ s[id].isAvailable THEN Some(s[id]) ELSE None

\* ApartmentsService.findOneWithDetails
findOneWithDetails(s, id) ==
    IF id \in DOMAIN s /\ Visible(s[id]) THEN Some(s[id]) ELSE None

\* Mutant of incrementViewCount: the UPDATE without its WHERE clause
incrementViewCount_everyRow(s, id) ==
    [j \in DOMAIN s |-> [s[j] EXCEPT !.viewCount = @ + 1]]

\* ApartmentsService.incrementViewCount:
\* UPDATE apartments SET viewCount = viewCount + 1 WHERE id = :id
incrementViewCount(s, id) ==
    IF id \in DOMAIN s THEN [s EXCEPT ![id].viewCount = @ + 1] ELSE s

-----------------------------------------------------------------------------
(* The listing query: ApartmentsService.findAllPaginated *)

\* SearchApartmentDto and PaginationDto with nothing supplied
NoQuery ==
    [search |-> None, project |-> None, location |-> None,
     minPrice |-> None, maxPrice |-> None, bedrooms |-> None, bathrooms |-> None,
     minArea |-> None, maxArea |-> None, sortBy |-> None, sortOrder |-> None,
     page |-> None, limit |-> None]

\* Mutant of WhereMatches: the listing without `deletedAt: IsNull()`
WhereMatches_deleted(row, q) == row.isAvailable

\* whereConditions: the conjunction the service builds from the destructured
\* properties search, project, minPrice, maxPrice, bedrooms and bathrooms
WhereMatches(row, q) ==
    /\ row.isAvailable
    /\ row.deletedAt = NullTime
    /\ (IsSome(q.search) /\ Get(q.search) # << >>) => Like(row.unitName, Get(q.search))
    /\ (IsSome(q.project) /\ Get(q.project) # << >>) => Like(row.project, Get(q.project))
    /\ IF IsSome(q.minPrice) /\ IsSome(q.maxPrice)
       THEN Get(q.minPrice) <= row.price /\ row.price <= Get(q.maxPrice)
       ELSE IF IsSome(q.minPrice) THEN row.price >= Get(q.minPrice)
       ELSE IF IsSome(q.maxPrice) THEN row.price <= Get(q.maxPrice)
       ELSE TRUE
    /\ IsSome(q.bedrooms) => row.bedrooms = Get(q.bedrooms)
    /\ IsSome(q.bathrooms) => row.bathrooms = Get(q.bathrooms)

\* The rows the WHERE clause of the listing selects
Matching(s, q) == {s[id] : id \in {j \in DOMAIN s : WhereMatches(s[j], q)}}

SortKey(row, sortBy) ==
    CASE sortBy = "price" -> row.price
      [] sortBy = "area" -> row.area
      [] sortBy = "bedrooms" -> row.bedrooms
      [] OTHER -> row.createdAt

\* ORDER BY key ASC|DESC over a set of rows: every order the statement may return
\* them in (rows with equal keys come in the order the server happens to pick)
Ordered(rows, sortBy, sortOrder) ==
    { sq \in [1..Cardinality(rows) -> rows] :
        /\ \A i, j \in DOMAIN sq : i # j => sq[i] # sq[j]
        /\ \A i \in DOMAIN sq : i < Len(sq) =>
              IF sortOrder = "ASC"
              THEN SortKey(sq[i], sortBy) <= SortKey(sq[i + 1], sortBy)
              ELSE SortKey(sq[i], sortBy) >= SortKey(sq[i + 1], sortBy) }

Min2(a, b) == IF a < b THEN a ELSE b

\* Mutant of CeilDiv: Math.floor in place of Math.ceil
CeilDiv_floor(total, limit) == total \div limit

\* Math.ceil(total / limit)
CeilDiv(total, limit) == (total + limit - 1) \div limit

\* The envelopes findAllPaginated may return when findAndCount succeeds
findAllPaginated(s, q) ==
    LET page == IF IsSome(q.page) THEN Get(q.page) ELSE 1
        limit == IF IsSome(q.limit) THEN Get(q.limit) ELSE 10
        sortBy == IF IsSome(q.sortBy) THEN Get(q.sortBy) ELSE "createdAt"
        sortOrder == IF IsSome(q.sortOrder) THEN Get(q.sortOrder) ELSE "DESC"
        skip == (page - 1) * limit
        rows == Matching(s, q)
        total == Cardinality(rows)
        totalPages == CeilDiv(total, limit)
    IN  { [data |-> SubSeq(sq, skip + 1, Min2(skip + limit, total)),
           pagination |-> [page |-> page, limit |-> limit, total |-> total,
                           totalPages |-> totalPages,
                           hasNext |-> page < totalPages,
                           hasPrev |-> page > 1],
           filters |-> [search |-> q.search, project |-> q.project,
                        minPrice |-> q.minPrice, maxPrice |-> q.maxPrice,
                        bedrooms |-> q.bedrooms, bathrooms |-> q.bathrooms,
                        sortBy |-> sortBy, sortOrder |-> sortOrder]]
          : sq \in Ordered(rows, sortBy, sortOrder) }

\* The relations of the Apartment entity (it declares none) and the relations
\* the listing asks findAndCount to join
ApartmentRelations == {}
ListingRelations == {"reviews"}

\* findAndCount rejects a relation the entity does not have
FindAndCountThrows == ~(ListingRelations \subseteq ApartmentRelations)

-----------------------------------------------------------------------------
(* ApartmentsService.findSimilar *)

SimilarLimit == 3

\* Between(apartment.price - priceRange, apartment.price + priceRange) with
\* priceRange = apartment.price * 0.2.  A DECIMAL the driver hands over as a
\* string makes `+` a concatenation ("100.00" + 20 = "100.0020"), so the upper
\* bound stays under price + 0.01 and admits no price above the target's.
SimilarPrice(rowPrice, price, asString) ==
    /\ 5 * rowPrice >= 4 * price
    /\ IF asString THEN rowPrice <= price ELSE 5 * rowPrice <= 6 * price

SimilarRows(s, id, target, asString) ==
    { s[j] : j \in { k \in DOMAIN s :
                       /\ k # id
                       /\ s[k].bedrooms = target.bedrooms
                       /\ SimilarPrice(s[k].price, target.price, asString)
                       /\ s[k].isAvailable
                       /\ s[k].deletedAt = NullTime } }

\* order: { viewCount: 'DESC' }, take: limit
findSimilarQuery(s, id, target, asString, limit) ==
    { SubSeq(sq, 1, Min2(limit, Len(sq))) :
        sq \in { o \in [1..Cardinality(SimilarRows(s, id, target, asString))
                        -> SimilarRows(s, id, target, asString)] :
                   /\ \A i, j \in DOMAIN o : i # j => o[i] # o[j]
                   /\ \A i \in DOMAIN o : i < Len(o) =>
                         o[i].viewCount >= o[i + 1].viewCount } }

-----------------------------------------------------------------------------
(* ApartmentsService.findByProject and getFeaturedApartments *)

\* find({ where: { project: Like(`%${projectName}%`), isAvailable: true,
\* deletedAt: IsNull() }, order: { createdAt: 'DESC' } })
findByProject(s, projectName) ==
    Ordered({s[id] : id \in {j \in DOMAIN s :
                                /\ Like(s[j].project, projectName)
                                /\ s[j].isAvailable
                                /\ s[j].deletedAt = NullTime}},
            "createdAt", "DESC")

FeaturedLimit == 6

\* find({ where: { isAvailable: true, deletedAt: IsNull() },
\* order: { viewCount: 'DESC', createdAt: 'DESC' }, take: limit })
getFeaturedApartments(s, limit) ==
    LET rows == {s[id] : id \in {j \in DOMAIN s :
                                    s[j].isAvailable /\ s[j].deletedAt = NullTime}}
    IN  { SubSeq(sq, 1, Min2(limit, Len(sq))) :
            sq \in { o \in [1..Cardinality(rows) -> rows] :
                       /\ \A i, j \in DOMAIN o : i # j => o[i] # o[j]
                       /\ \A i \in DOMAIN o : i < Len(o) =>
                             \/ o[i].viewCount > o[i + 1].viewCount
                             \/ /\ o[i].viewCount = o[i + 1].viewCount
                                /\ o[i].createdAt >= o[i + 1].createdAt } }

-----------------------------------------------------------------------------
(* Requests *)

\* A slot no request has used yet
Idle ==
    [op |-> "none", pc |-> "idle", id |-> 0, dto |-> None, query |-> None,
     apartment |-> None, target |-> None, status |-> 0, body |-> None,
     similar |-> << >>]

\* The slot is free for a new request: nothing in it is waiting on the store
Free(r) == reqs[r].pc \in {"idle", "done"}

\* A request that has just arrived
Begin(op, id, dto) == [Idle EXCEPT !.op = op, !.id = id, !.dto = dto]

\* The request answered: an HTTP status and what the body carries
Reply(req, status, body, similar) ==
    [req EXCEPT !.pc = "done", !.query = None, !.apartment = None, !.target = None,
                !.status = status, !.body = body, !.similar = similar]

\* The same with the request's input forgotten, for the handlers whose input no
\* property of the answer refers to
ReplyOnly(req, status, body, similar) ==
    [Reply(req, status, body, similar) EXCEPT !.dto = None]

-----------------------------------------------------------------------------
(* POST /apartments: ApartmentsController.create, ApartmentsService.create *)

create(r, dto) ==
    /\ Free(r)
    /\ IF DuplicateEntry(store, 0, dto.unitNumber)
       THEN \* save throws ER_DUP_ENTRY; the handler answers 409 Conflict
            /\ reqs' = [reqs EXCEPT ![r] =
                          Reply(Begin("create", 0, Some(dto)), 409, None, << >>)]
            /\ UNCHANGED <<store, nextId>>
       ELSE /\ store' = (nextId :> NewApartment(dto, nextId, clock)) @@ store
            /\ nextId' = nextId + 1
            /\ reqs' = [reqs EXCEPT ![r] =
                          Reply(Begin("create", nextId, Some(dto)), 201,
                                Some(NewApartment(dto, nextId, clock)), << >>)]
    /\ UNCHANGED <<clock, fetched>>

-----------------------------------------------------------------------------
(* PUT /apartments/:id: ApartmentsController.update, ApartmentsService.update *)

\* await this.apartmentRepository.update(id, {...updateApartmentDto, updatedAt})
update_write(r, id, dto) ==
    /\ Free(r)
    /\ IF /\ id \in DOMAIN store
          /\ IsSome(dto.unitNumber)
          /\ DuplicateEntry(store, id, Get(dto.unitNumber))
       THEN \* the UPDATE throws ER_DUP_ENTRY; the handler's catch answers 500
            /\ reqs' = [reqs EXCEPT ![r] =
                          Reply(Begin("update", id, Some(dto)), 500, None, << >>)]
            /\ UNCHANGED store
       ELSE /\ store' = repositoryUpdate(store, id, dto)
            /\ reqs' = [reqs EXCEPT ![r] =
                          [Begin("update", id, Some(dto)) EXCEPT !.pc = "update_find"]]
    /\ UNCHANGED <<nextId, clock, fetched>>

\* const updatedApartment = await this.findOneWithDetails(id), and the answer
update_find(r) ==
    /\ reqs[r].pc = "update_find"
    /\ LET updatedApartment == findOneWithDetails(store, reqs[r].id)
       IN  reqs' = [reqs EXCEPT ![r] =
                      IF IsSome(updatedApartment)
                      THEN ReplyOnly(@, 200, updatedApartment, << >>)
                      ELSE ReplyOnly(@, 404, None, << >>)]
    /\ UNCHANGED <<store, nextId, clock, fetched>>

-----------------------------------------------------------------------------
(* DELETE /apartments/:id: ApartmentsController.remove, ApartmentsService.softDelete *)

\* Mutant of softDelete_find: the delete without the lookup that comes first
softDelete_find_unchecked(r, id) ==
    /\ Free(r)
    /\ id \in DOMAIN store
    /\ reqs' = [reqs EXCEPT ![r] =
                  [Begin("remove", id, None) EXCEPT
                      !.pc = "softDelete_update", !.apartment = Some(store[id])]]
    /\ UNCHANGED <<store, nextId, clock, fetched>>

\* const apartment = await this.findOneWithDetails(id); if (!apartment) return false
softDelete_find(r, id) ==
    /\ Free(r)
    /\ LET apartment == findOneWithDetails(store, id)
       IN  reqs' = [reqs EXCEPT ![r] =
                      IF IsSome(apartment)
                      THEN [Begin("remove", id, None) EXCEPT
                               !.pc = "softDelete_update", !.apartment = apartment]
                      ELSE Reply(Begin("remove", id, None), 404, None, << >>)]
    /\ UNCHANGED <<store, nextId, clock, fetched>>

\* await this.apartmentRepository.update(id, {isAvailable: false, deletedAt: new Date()})
softDelete_update(r) ==
    /\ reqs[r].pc = "softDelete_update"
    /\ store' = markDeleted(store, reqs[r].id, clock)
    /\ reqs' = [reqs EXCEPT ![r] = Reply(@, 200, None, << >>)]
    /\ UNCHANGED <<nextId, clock, fetched>>

-----------------------------------------------------------------------------
(* GET /apartments/:id: ApartmentsController.findOne *)

\* Requests for id that have read the record and not yet counted the view
PendingViews(id) ==
    Cardinality({r \in DOMAIN reqs :
                   reqs[r].pc = "findOne_increment" /\ reqs[r].id = id})

\* const apartment = await this.apartmentsService.findOneWithDetails(id)
findOne_find(r, id) ==
    /\ Free(r)
    /\ LET apartment == findOneWithDetails(store, id)
       IN  IF IsSome(apartment)
           THEN /\ store[id].viewCount + PendingViews(id) < MaxViews
                /\ reqs' = [reqs EXCEPT ![r] =
                              [Begin("findOne", id, None) EXCEPT
                                  !.pc = "findOne_increment", !.apartment = apartment]]
           ELSE reqs' = [reqs EXCEPT ![r] =
                           Reply(Begin("findOne", id, None), 404, None, << >>)]
    /\ UNCHANGED <<store, nextId, clock, fetched>>

\* Mutant of findOne_increment: the view count written back from the record the
\* handler read (read-modify-write in the application)
findOne_increment_readModifyWrite(r) ==
    /\ reqs[r].pc = "findOne_increment"
    /\ store' = [store EXCEPT ![reqs[r].id].viewCount =
                                 Get(reqs[r].apartment).viewCount + 1]
    /\ reqs' = [reqs EXCEPT ![r].pc = "findSimilar_find"]
    /\ UNCHANGED <<nextId, clock, fetched>>

\* await this.apartmentsService.incrementViewCount(id)
findOne_increment(r) ==
    /\ reqs[r].pc = "findOne_increment"
    /\ store' = incrementViewCount(store, reqs[r].id)
    /\ reqs' = [reqs EXCEPT ![r].pc = "findSimilar_find"]
    /\ UNCHANGED <<nextId, clock, fetched>>

\* findSimilar: const apartment = await this.findOneWithDetails(apartmentId);
\* if (!apartment) return []
findSimilar_find(r) ==
    /\ reqs[r].pc = "findSimilar_find"
    /\ LET target == findOneWithDetails(store, reqs[r].id)
       IN  IF IsSome(target)
           THEN /\ reqs' = [reqs EXCEPT ![r].pc = "findSimilar_query",
                                        ![r].target = target]
                /\ UNCHANGED fetched
           ELSE /\ reqs' = [reqs EXCEPT ![r] = Reply(@, 200, reqs[r].apartment, << >>)]
                /\ fetched' = [fetched EXCEPT ![reqs[r].id] = @ + 1]
    /\ UNCHANGED <<store, nextId, clock>>

\* findSimilar: the find over the other records, and the answer
\* {...apartment, viewCount: apartment.viewCount || 0, similarApartments}
findSimilar_query(r) ==
    /\ reqs[r].pc = "findSimilar_query"
    /\ \E asString \in BOOLEAN :
       \E similarApartments \in
            findSimilarQuery(store, reqs[r].id, Get(reqs[r].target),
                             asString, SimilarLimit) :
          reqs' = [reqs EXCEPT ![r] = Reply(@, 200, reqs[r].apartment, similarApartments)]
    /\ fetched' = [fetched EXCEPT ![reqs[r].id] = @ + 1]
    /\ UNCHANGED <<store, nextId, clock>>

-----------------------------------------------------------------------------
(* GET /apartments: ApartmentsController.findAll, ApartmentsService.findAllPaginated *)

\* The digits a numeric string starts with: parseFloat and parseInt read the
\* longest prefix that is a number and ignore what follows it.  (The strings
\* here carry no blank, sign, point, exponent or radix prefix.)
RECURSIVE DigitPrefix(_)
DigitPrefix(s) ==
    IF s = << >> \/ Head(s) \notin Range(Digits) THEN << >>
    ELSE <<Head(s)>> \o DigitPrefix(Tail(s))

DigitValue(c) == (CHOOSE i \in DOMAIN Digits : Digits[i] = c) - 1

RECURSIVE DecimalValue(_)
DecimalValue(s) ==
    IF s = << >> THEN 0
    ELSE 10 * DecimalValue(SubSeq(s, 1, Len(s) - 1)) + DigitValue(s[Len(s)])

\* Number.NaN, as a value no digit string parses to
NaN == 0 - 1

parseFloat(s) == IF DigitPrefix(s) = << >> THEN NaN ELSE DecimalValue(DigitPrefix(s))
parseInt(s) == IF DigitPrefix(s) = << >> THEN NaN ELSE DecimalValue(DigitPrefix(s))

\* value ? parseFloat(value) : undefined, for a query-string property
\* (a string is truthy unless it is empty)
FloatOrUndefined(o) ==
    IF IsSome(o) /\ Get(o) # << >> THEN Some(parseFloat(Get(o))) ELSE None
IntOrUndefined(o) ==
    IF IsSome(o) /\ Get(o) # << >> THEN Some(parseInt(Get(o))) ELSE None

\* The query strings GET /apartments is called with: each property a string
A100 == <<"1","0","0">>
Abc == <<"a","b","c">>
A1x == <<"1","x">>

RawQueries ==
    { NoQuery,
      [NoQuery EXCEPT !.location = Some(LocMT)],
      [NoQuery EXCEPT !.minPrice = Some(A100)],
      [NoQuery EXCEPT !.minPrice = Some(Abc)],
      [NoQuery EXCEPT !.bedrooms = Some(A1x)],
      [NoQuery EXCEPT !.sortBy = Some("price"), !.sortOrder = Some("ASC")],
      [NoQuery EXCEPT !.page = Some(<<"2">>), !.limit = Some(<<"1">>)] }

\* What the handler has for the service: the DTOs, or a 400 thrown by a pipe
Handed(query) == [status |-> 0, query |-> query]
BadRequest == [status |-> 400, query |-> NoQuery]

\* findAll with `@Query(...) query: any`: no class to validate against; the
\* handler extracts searchDto and paginationDto property by property, and
\* extracts neither sortBy nor sortOrder
findAllExtract(query) ==
    Handed([NoQuery EXCEPT
        !.search = query.search,
        !.project = query.project,
        !.location = query.location,
        !.minPrice = FloatOrUndefined(query.minPrice),
        !.maxPrice = FloatOrUndefined(query.maxPrice),
        !.bedrooms = IntOrUndefined(query.bedrooms),
        !.bathrooms = IntOrUndefined(query.bathrooms),
        !.minArea = FloatOrUndefined(query.minArea),
        !.maxArea = FloatOrUndefined(query.maxArea),
        !.page = IF IsSome(IntOrUndefined(query.page))
                 THEN IntOrUndefined(query.page) ELSE Some(1),
        !.limit = IF IsSome(IntOrUndefined(query.limit))
                  THEN IntOrUndefined(query.limit) ELSE Some(10)])

\* The properties SearchApartmentDto declares, among those of a query
SearchProperties ==
    {"search", "project", "location", "minPrice", "maxPrice", "bedrooms",
     "bathrooms", "minArea", "maxArea"}

\* The properties PaginationDto declares
PaginationProperties == {"page", "limit"}

\* The properties a query string supplies
Supplied(query) == {f \in DOMAIN query : IsSome(query[f])}

\* SearchApartmentDto after @Transform: the numeric properties parsed
TransformSearch(query) ==
    [NoQuery EXCEPT
        !.search = query.search,
        !.project = query.project,
        !.location = query.location,
        !.minPrice = FloatOrUndefined(query.minPrice),
        !.maxPrice = FloatOrUndefined(query.maxPrice),
        !.bedrooms = IntOrUndefined(query.bedrooms),
        !.bathrooms = IntOrUndefined(query.bathrooms),
        !.minArea = FloatOrUndefined(query.minArea),
        !.maxArea = FloatOrUndefined(query.maxArea)]

\* @IsOptional() @IsNumber() @Min(0): undefined passes, NaN does not
IsNumberMin0(o) == IsSome(o) => (Get(o) # NaN /\ Get(o) >= 0)

\* The global ValidationPipe (transform, whitelist, forbidNonWhitelisted) on
\* `searchDto: SearchApartmentDto`, which is given the whole query string
ValidSearchDto(query) ==
    /\ Supplied(query) \subseteq SearchProperties
    /\ \A f \in {"minPrice", "maxPrice", "bedrooms", "bathrooms", "minArea", "maxArea"} :
          IsNumberMin0(TransformSearch(query)[f])

\* The same pipe on `paginationDto: PaginationDto`, given the whole query string too
ValidPaginationDto(query) == Supplied(query) \subseteq PaginationProperties

\* findAll with `searchDto: SearchApartmentDto, paginationDto: PaginationDto`
findAllValidate(query) ==
    IF ValidSearchDto(query) /\ ValidPaginationDto(query)
    THEN Handed(TransformSearch(query))
    ELSE BadRequest

\* A request arrives and passes the pipes and the handler's extraction; the
\* repository holds both versions of the handler
findAll(r, query) ==
    /\ Free(r)
    /\ \E handed \in {findAllExtract(query), findAllValidate(query)} :
          reqs' = [reqs EXCEPT ![r] =
                     IF handed.status = 400
                     THEN Reply(Begin("findAll", 0, Some(query)), 400, None, << >>)
                     ELSE [Begin("findAll", 0, Some(query)) EXCEPT
                              !.pc = "findAllPaginated", !.query = Some(handed.query)]]
    /\ UNCHANGED <<store, nextId, clock, fetched>>

\* findAllPaginated: await this.apartmentRepository.findAndCount(...), and the answer
findAll_findAndCount(r) ==
    /\ reqs[r].pc = "findAllPaginated"
    /\ IF FindAndCountThrows
       THEN \* the handler's catch answers 500 "Failed to fetch apartments"
            reqs' = [reqs EXCEPT ![r] = ReplyOnly(@, 500, None, << >>)]
       ELSE \E result \in findAllPaginated(store, Get(reqs[r].query)) :
               reqs' = [reqs EXCEPT ![r] = ReplyOnly(@, 200, Some(result), << >>)]
    /\ UNCHANGED <<store, nextId, clock, fetched>>

-----------------------------------------------------------------------------
(* GET /apartments/stats: ApartmentsController.getStats, ApartmentsService.getStatistics *)

\* Mutant of countTotal: the count without `deletedAt: IsNull()`
countTotal_allRows(s) == Cardinality(DOMAIN s)

\* count({ where: { deletedAt: IsNull() } })
countTotal(s) == Cardinality({id \in DOMAIN s : s[id].deletedAt = NullTime})

\* count({ where: { isAvailable: true, deletedAt: IsNull() } })
countAvailable(s) ==
    Cardinality({id \in DOMAIN s : s[id].isAvailable /\ s[id].deletedAt = NullTime})

\* The rows of the four aggregate queries:
\* WHERE apartment.isAvailable = :available AND apartment.deletedAt IS NULL
VisibleRows(s) == {s[id] : id \in {j \in DOMAIN s : Visible(s[j])}}

RECURSIVE SumPrice(_)
SumPrice(rows) ==
    IF rows = {} THEN 0
    ELSE LET row == CHOOSE x \in rows : TRUE
         IN  row.price + SumPrice(rows \ {row})

\* A number as the driver hands it over in a raw row: its decimal string (for
\* the whole numbers here, the digits before the point)
RECURSIVE DecimalString(_)
DecimalString(n) ==
    IF n < 10 THEN <<Digits[n + 1]>>
    ELSE DecimalString(n \div 10) \o <<Digits[(n % 10) + 1]>>

\* SELECT AVG(apartment.price) AS avg: one raw row, avg NULL over no row
\* (the average of whole prices taken down to a whole number)
AvgPrice(rows) ==
    IF rows = {} THEN None
    ELSE Some(DecimalString(SumPrice(rows) \div Cardinality(rows)))

\* SELECT MIN(apartment.price) AS min, MAX(apartment.price) AS max
MinPrice(rows) ==
    IF rows = {} THEN None
    ELSE Some(DecimalString(
             (CHOOSE x \in rows : \A y \in rows : x.price <= y.price).price))
MaxPrice(rows) ==
    IF rows = {} THEN None
    ELSE Some(DecimalString(
             (CHOOSE x \in rows : \A y \in rows : x.price >= y.price).price))

\* Mutant of OrZero: the raw value parsed without the `|| '0'`
OrZero_unguarded(o) == IF IsSome(o) THEN parseFloat(Get(o)) ELSE NaN

\* parseFloat(raw || '0'): NULL and the empty string give '0'
OrZero(o) == parseFloat(IF IsSome(o) /\ Get(o) # << >> THEN Get(o) ELSE <<"0">>)

\* Mutant of ProjectGroups: LEFT JOIN-like grouping that keeps a group for
\* every project of the table, with count 0 where no row is visible
ProjectGroups_allProjects(s) ==
    { [project |-> p,
       count |-> DecimalString(Cardinality({x \in VisibleRows(s) : x.project = p})),
       avgPrice |-> DecimalString(0)]
      : p \in {s[id].project : id \in DOMAIN s} }

\* SELECT project, COUNT(*) AS count, AVG(price) AS avgPrice ... GROUP BY project:
\* one raw row per project that has a visible row
ProjectGroups(s) ==
    { [project |-> p,
       count |-> DecimalString(Cardinality({x \in VisibleRows(s) : x.project = p})),
       avgPrice |-> Get(AvgPrice({x \in VisibleRows(s) : x.project = p}))]
      : p \in {row.project : row \in VisibleRows(s)} }

\* SELECT bedrooms, COUNT(*) AS count ... GROUP BY bedrooms
BedroomGroups(s) ==
    { [bedrooms |-> DecimalString(b),
       count |-> DecimalString(Cardinality({x \in VisibleRows(s) : x.bedrooms = b}))]
      : b \in {row.bedrooms : row \in VisibleRows(s)} }

\* ORDER BY field ASC|DESC over raw rows: every order the statement may return
OrderedBy(groups, field, order) ==
    { sq \in [1..Cardinality(groups) -> groups] :
        /\ \A i, j \in DOMAIN sq : i # j => sq[i] # sq[j]
        /\ \A i \in DOMAIN sq : i < Len(sq) =>
              IF order = "ASC"
              THEN parseInt(sq[i][field]) <= parseInt(sq[i + 1][field])
              ELSE parseInt(sq[i][field]) >= parseInt(sq[i + 1][field]) }

\* What the four aggregate queries may return for a store
Aggregates(s) ==
    { [averagePrice |-> AvgPrice(VisibleRows(s)),
       min |-> MinPrice(VisibleRows(s)),
       max |-> MaxPrice(VisibleRows(s)),
       projectStats |-> p,
       bedroomStats |-> b]
      : p \in OrderedBy(ProjectGroups(s), "count", "DESC"),
        b \in OrderedBy(BedroomGroups(s), "bedrooms", "ASC") }

\* The report getStatistics returns (lastUpdated, the time of the report, left out)
StatsReport(totalApartments, availableApartments, raw) ==
    [totalApartments |-> totalApartments,
     availableApartments |-> availableApartments,
     unavailableApartments |-> totalApartments - availableApartments,
     averagePrice |-> OrZero(raw.averagePrice),
     priceRange |-> [min |-> OrZero(raw.min), max |-> OrZero(raw.max)],
     projectStats |->
        [i \in DOMAIN raw.projectStats |->
            [project |-> raw.projectStats[i].project,
             count |-> parseInt(raw.projectStats[i].count),
             averagePrice |-> parseFloat(raw.projectStats[i].avgPrice)]],
     bedroomDistribution |->
        [i \in DOMAIN raw.bedroomStats |->
            [bedrooms |-> parseInt(raw.bedroomStats[i].bedrooms),
             count |-> parseInt(raw.bedroomStats[i].count)]]]

\* Promise.all starts the queries together and the store runs them one by one:
\* the two counts in either order, the request holding the count it has until
\* the other arrives, and then the aggregate queries.
\* The count of all records that are not deleted:
getStatistics_total(r) ==
    /\ \/ /\ Free(r)
          /\ reqs' = [reqs EXCEPT ![r] =
                        [Begin("getStats", 0, None) EXCEPT
                            !.pc = "getStatistics_available",
                            !.body = Some([totalApartments |-> countTotal(store)])]]
       \/ /\ reqs[r].pc = "getStatistics_total"
          /\ reqs' = [reqs EXCEPT ![r] =
                        [@ EXCEPT
                            !.pc = "getStatistics_aggregates",
                            !.body = Some([totalApartments |-> countTotal(store),
                                           availableApartments |->
                                               Get(reqs[r].body).availableApartments])]]
    /\ UNCHANGED <<store, nextId, clock, fetched>>

\* The count of the available records that are not deleted:
getStatistics_available(r) ==
    /\ \/ /\ Free(r)
          /\ reqs' = [reqs EXCEPT ![r] =
                        [Begin("getStats", 0, None) EXCEPT
                            !.pc = "getStatistics_total",
                            !.body = Some([availableApartments |-> countAvailable(store)])]]
       \/ /\ reqs[r].pc = "getStatistics_available"
          /\ reqs' = [reqs EXCEPT ![r] =
                        [@ EXCEPT
                            !.pc = "getStatistics_aggregates",
                            !.body = Some([totalApartments |->
                                               Get(reqs[r].body).totalApartments,
                                           availableApartments |-> countAvailable(store)])]]
    /\ UNCHANGED <<store, nextId, clock, fetched>>

\* The average, the price range and the two GROUP BY queries, all over the same
\* rows and taken as one read of the table, and the report assembled from the
\* six results
getStatistics_aggregates(r) ==
    /\ reqs[r].pc = "getStatistics_aggregates"
    /\ \E raw \in Aggregates(store) :
          reqs' = [reqs EXCEPT ![r] =
                     Reply(@, 200,
                           Some(StatsReport(Get(reqs[r].body).totalApartments,
                                            Get(reqs[r].body).availableApartments,
                                            raw)),
                           << >>)]
    /\ UNCHANGED <<store, nextId, clock, fetched>>

-----------------------------------------------------------------------------
(* Time passes *)

Tick ==
    /\ clock < MaxClock
    /\ clock' = clock + 1
    /\ UNCHANGED <<store, nextId, reqs, fetched>>

-----------------------------------------------------------------------------
(* Specifications *)

\* The state after bootstrap with an empty table (no seed outside development)
InitWith(slots) ==
    /\ store = << >>
    /\ nextId = 1
    /\ clock = 1
    /\ reqs = [r \in slots |-> Idle]
    /\ fetched = [id \in Ids |-> 0]

\* One request at a time
Init == InitWith({1})

\* Up to MaxReq requests in flight
InitConc == InitWith(1..MaxReq)

\* A step of the system: a request arrives and runs to its first store
\* operation, a request in flight runs its next one, or time passes
Next ==
    \/ \E r \in DOMAIN reqs, dto \in CreateDtos : create(r, dto)
    \/ \E r \in DOMAIN reqs, id \in Ids, dto \in UpdateDtos : update_write(r, id, dto)
    \/ \E r \in DOMAIN reqs : update_find(r)
    \/ \E r \in DOMAIN reqs, id \in Ids : softDelete_find(r, id)
    \/ \E r \in DOMAIN reqs : softDelete_update(r)
    \/ \E r \in DOMAIN reqs, id \in Ids : findOne_find(r, id)
    \/ \E r \in DOMAIN reqs : findOne_increment(r)
    \/ \E r \in DOMAIN reqs : findSimilar_find(r)
    \/ \E r \in DOMAIN reqs : findSimilar_query(r)
    \/ \E r \in DOMAIN reqs, query \in RawQueries : findAll(r, query)
    \/ \E r \in DOMAIN reqs : findAll_findAndCount(r)
    \/ \E r \in DOMAIN reqs : getStatistics_total(r)
    \/ \E r \in DOMAIN reqs : getStatistics_available(r)
    \/ \E r \in DOMAIN reqs : getStatistics_aggregates(r)
    \/ Tick

Spec == Init /\ [][Next]_vars

\* The requests of the concurrent runs: all of them about record 1
ConcCreateDtos == {dto \in CreateDtos : dto.unitName = NameSky /\ dto.isAvailable = None}
ConcUpdateDtos == {[NoPatch EXCEPT !.isAvailable = Some(FALSE)]}
ConcIds == {1}

NextConc ==
    \/ \E r \in DOMAIN reqs, dto \in ConcCreateDtos : create(r, dto)
    \/ \E r \in DOMAIN reqs, id \in ConcIds, dto \in ConcUpdateDtos :
          update_write(r, id, dto)
    \/ \E r \in DOMAIN reqs : update_find(r)
    \/ \E r \in DOMAIN reqs, id \in ConcIds : softDelete_find(r, id)
    \/ \E r \in DOMAIN reqs : softDelete_update(r)
    \/ \E r \in DOMAIN reqs, id \in ConcIds : findOne_find(r, id)
    \/ \E r \in DOMAIN reqs : findOne_increment(r)
    \/ \E r \in DOMAIN reqs : findSimilar_find(r)
    \/ \E r \in DOMAIN reqs : findSimilar_query(r)
    \/ Tick

SpecConc == InitConc /\ [][NextConc]_vars

\* Statistics requests in flight together with the requests that write
NextStats ==
    \/ \E r \in DOMAIN reqs, dto \in ConcCreateDtos : create(r, dto)
    \/ \E r \in DOMAIN reqs, id \in ConcIds, dto \in ConcUpdateDtos :
          update_write(r, id, dto)
    \/ \E r \in DOMAIN reqs : update_find(r)
    \/ \E r \in DOMAIN reqs, id \in ConcIds : softDelete_find(r, id)
    \/ \E r \in DOMAIN reqs : softDelete_update(r)
    \/ \E r \in DOMAIN reqs : getStatistics_total(r)
    \/ \E r \in DOMAIN reqs : getStatistics_available(r)
    \/ \E r \in DOMAIN reqs : getStatistics_aggregates(r)
    \/ Tick

SpecStats == InitConc /\ [][NextStats]_vars

\* The runs behind the grouped statistics: three units over two projects and
\* two bedroom counts, created available or not, soft-deleted, and reported on,
\* one request at a time
ReportUnits ==
    { [unitName |-> NameSky, unitNumber |-> <<"A","-","1">>, project |-> ProjMH,
       price |-> 100, bedrooms |-> 1, bathrooms |-> 1, area |-> 50,
       location |-> None],
      [unitName |-> NameSky, unitNumber |-> <<"A","-","2">>, project |-> ProjMH,
       price |-> 120, bedrooms |-> 2, bathrooms |-> 1, area |-> 50,
       location |-> None],
      [unitName |-> NameSea, unitNumber |-> <<"A","-","3">>, project |-> ProjGR,
       price |-> 140, bedrooms |-> 2, bathrooms |-> 1, area |-> 50,
       location |-> None] }

ReportDtos ==
    { [unitName |-> u.unitName, unitNumber |-> u.unitNumber, project |-> u.project,
       price |-> u.price, bedrooms |-> u.bedrooms, bathrooms |-> u.bathrooms,
       area |-> u.area, location |-> u.location, isAvailable |-> a]
      : u \in ReportUnits, a \in {None, Some(FALSE)} }

NextReport ==
    \/ \E r \in DOMAIN reqs, dto \in ReportDtos : create(r, dto)
    \/ \E r \in DOMAIN reqs, id \in Ids : softDelete_find(r, id)
    \/ \E r \in DOMAIN reqs : softDelete_update(r)
    \/ \E r \in DOMAIN reqs : getStatistics_total(r)
    \/ \E r \in DOMAIN reqs : getStatistics_available(r)
    \/ \E r \in DOMAIN reqs : getStatistics_aggregates(r)

SpecReport == Init /\ [][NextReport]_vars

\* The runs over unit names and numbers: every string of up to MaxSlugLen
\* characters (not empty: @IsNotEmpty) over letters of both cases, a digit,
\* the dash and the blank, each given to one create on the empty table
MaxSlugLen == 2

SlugAlphabet == {"A", "a", "1", "-", " "}
SlugStrings == UNION {[1..n -> SlugAlphabet] : n \in 1..MaxSlugLen}

SlugDtos ==
    { [unitName |-> name, unitNumber |-> number, project |-> ProjMH,
       price |-> 100, bedrooms |-> 1, bathrooms |-> 1, area |-> 50,
       location |-> None, isAvailable |-> None]
      : name \in SlugStrings, number \in SlugStrings }

NextSlug ==
    \E r \in DOMAIN reqs, dto \in SlugDtos : store = << >> /\ create(r, dto)

SpecSlug == Init /\ [][NextSlug]_vars

-----------------------------------------------------------------------------
(* The filter combinations the listing properties range over *)

\* Each filter supplied alone, with each of its values
OneFilter ==
    {[NoQuery EXCEPT !.search = Some(v)] : v \in {<<"s","k">>, <<"e","a">>}}
    \cup {[NoQuery EXCEPT !.project = Some(v)] : v \in {ProjMH, <<"g">>}}
    \cup {[NoQuery EXCEPT !.location = Some(v)] : v \in {LocDT, LocMT}}
    \cup {[NoQuery EXCEPT !.minPrice = Some(v)] : v \in {100, 120}}
    \cup {[NoQuery EXCEPT !.maxPrice = Some(v)] : v \in {100, 110}}
    \cup {[NoQuery EXCEPT !.bedrooms = Some(v)] : v \in {1, 2}}
    \cup {[NoQuery EXCEPT !.bathrooms = Some(v)] : v \in {1, 2}}
    \cup {[NoQuery EXCEPT !.minArea = Some(v)] : v \in {40, 60}}
    \cup {[NoQuery EXCEPT !.maxArea = Some(v)] : v \in {60, 90}}

\* Filters supplied together: both ends of a range, and all nine at once
SeveralFilters ==
    {[NoQuery EXCEPT !.minPrice = Some(100), !.maxPrice = Some(v)] : v \in {100, 110}}
    \cup {[NoQuery EXCEPT !.minArea = Some(40), !.maxArea = Some(v)] : v \in {60, 90}}
    \cup {[NoQuery EXCEPT !.search = Some(<<"s">>), !.project = Some(p),
                          !.location = Some(<<"t">>), !.minPrice = Some(100),
                          !.maxPrice = Some(120), !.bedrooms = Some(1),
                          !.bathrooms = Some(b), !.minArea = Some(40),
                          !.maxArea = Some(90)] : p \in {ProjMH, <<"g">>}, b \in {1, 2}}

FilterQueries == {NoQuery} \cup OneFilter \cup SeveralFilters

\* What it is for a record to satisfy every filter a listing request supplies
SatisfiesFilters(row, q) ==
    /\ IsSome(q.search) =>
          \/ Like(row.unitName, Get(q.search))
          \/ Like(row.unitNumber, Get(q.search))
          \/ Like(row.project, Get(q.search))
    /\ IsSome(q.project) => Like(row.project, Get(q.project))
    /\ IsSome(q.location) =>
          IsSome(row.location) /\ Like(Get(row.location), Get(q.location))
    /\ IsSome(q.minPrice) => row.price >= Get(q.minPrice)
    /\ IsSome(q.maxPrice) => row.price <= Get(q.maxPrice)
    /\ IsSome(q.bedrooms) => row.bedrooms = Get(q.bedrooms)
    /\ IsSome(q.bathrooms) => row.bathrooms = Get(q.bathrooms)
    /\ IsSome(q.minArea) => row.area >= Get(q.minArea)
    /\ IsSome(q.maxArea) => row.area <= Get(q.maxArea)

\* The record id exists and is not soft-deleted
Exists(s, id) == id \in DOMAIN s /\ s[id].deletedAt = NullTime

\* Request r takes a step from a free slot: a new request of kind op arrives
Arrives(r, op) == Free(r) /\ reqs'[r].op = op /\ reqs'[r] # reqs[r]

\* No request is between two of its store operations
Quiescent == \A r \in DOMAIN reqs : Free(r)

-----------------------------------------------------------------------------
(* C1 *)

\* C1: for any store contents and any combination of supplied filters, every
\* record the listing (findAllPaginated) returns satisfies every supplied filter
\* (search, project, location, minPrice, maxPrice, bedrooms, bathrooms, minArea,
\* maxArea) and has isAvailable = true and deletedAt = null.
C1_ListingSatisfiesFilters ==
    \A q \in FilterQueries :
        \A result \in findAllPaginated(store, q) :
            \A i \in DOMAIN result.data :
                /\ SatisfiesFilters(result.data[i], q)
                /\ result.data[i].isAvailable
                /\ result.data[i].deletedAt = NullTime

-----------------------------------------------------------------------------
(* C2 *)

\* C2: in every reachable state of the store, every record with deletedAt
\* non-null has isAvailable = false.
C2_DeletedImpliesUnavailable ==
    \A id \in DOMAIN store :
        store[id].deletedAt # NullTime => ~store[id].isAvailable

-----------------------------------------------------------------------------
(* C3 *)

\* C3: update(id, partialData) answers NotFound exactly when id does not resolve
\* to an existing record (missing or soft-deleted), and in that case the call
\* changes no field of any stored record.
C3_UpdateNotFoundExact ==
    [][\A r \in DOMAIN reqs :
          /\ (reqs[r].pc = "update_find" /\ reqs'[r].pc = "done") =>
                ((reqs'[r].status = 404) <=> ~Exists(store, reqs[r].id))
          /\ (Arrives(r, "update") /\ ~Exists(store, reqs'[r].id)) =>
                store' = store]_vars

-----------------------------------------------------------------------------
(* C4 *)

\* C4: each successful getById raises the stored viewCount of that record by
\* exactly 1 and changes no other record's viewCount, so that after N sequential
\* successful fetches of a record created at 0 it is N; a fetch answered
\* NotFound changes no viewCount.
C4_FetchCountsView ==
    /\ [](Quiescent => \A id \in DOMAIN store : store[id].viewCount = fetched[id])
    /\ [][\A r \in DOMAIN reqs :
            (reqs'[r].op = "findOne" /\ reqs'[r] # reqs[r]) =>
                /\ DOMAIN store' = DOMAIN store
                /\ \A id \in DOMAIN store :
                      store'[id].viewCount =
                          IF id = reqs'[r].id /\ reqs'[r].status # 404
                             /\ reqs[r].pc = "findOne_increment"
                          THEN store[id].viewCount + 1
                          ELSE store[id].viewCount]_vars

\* C4 witness: a record fetched twice, one request after the other, stands at 2
\* next to a record nobody fetched
C4_Witness ==
    /\ Quiescent
    /\ \E id, other \in DOMAIN store :
          /\ id # other
          /\ store[id].viewCount = 2
          /\ fetched[id] = 2
          /\ store[other].viewCount = 0
          /\ \E r \in DOMAIN reqs :
                reqs[r].op = "findOne" /\ reqs[r].id = id /\ reqs[r].status = 200

-----------------------------------------------------------------------------
(* C5 *)

\* Requests for id that have counted their view and are not yet answered
CountedViews(id) ==
    Cardinality({r \in DOMAIN reqs :
                   /\ reqs[r].op = "findOne"
                   /\ reqs[r].id = id
                   /\ reqs[r].pc \in {"findSimilar_find", "findSimilar_query"}})

\* C5: under any interleaving of concurrent successful getById requests for one
\* record no increment is lost: the stored viewCount is the number of requests
\* that have counted their view, whatever each of them had read before.
C5_NoLostIncrement ==
    \A id \in DOMAIN store :
        store[id].viewCount = fetched[id] + CountedViews(id)

\* C5 witness: two requests that both read the record at viewCount 0 have both
\* been answered, and the record stands at 2
C5_Witness ==
    \E r1, r2 \in DOMAIN reqs :
        /\ r1 # r2
        /\ reqs[r1].op = "findOne" /\ reqs[r1].status = 200
        /\ reqs[r2].op = "findOne" /\ reqs[r2].status = 200
        /\ reqs[r1].id = reqs[r2].id
        /\ Get(reqs[r1].body).viewCount = 0
        /\ Get(reqs[r2].body).viewCount = 0
        /\ store[reqs[r1].id].viewCount = 2

-----------------------------------------------------------------------------
(* C6 *)

\* C6: after a successful softDelete(id) the record is still in the store with
\* isAvailable = false and deletedAt set; getById(id) answers NotFound; and no
\* listing query, whatever its filters, selects the record.
C6_SoftDeletedInvisible ==
    /\ [][\A r \in DOMAIN reqs :
            /\ (reqs[r].pc = "softDelete_update" /\ reqs'[r].status = 200) =>
                  /\ reqs[r].id \in DOMAIN store'
                  /\ ~store'[reqs[r].id].isAvailable
                  /\ store'[reqs[r].id].deletedAt # NullTime
            /\ (/\ Arrives(r, "findOne")
                /\ reqs'[r].id \in DOMAIN store
                /\ store[reqs'[r].id].deletedAt # NullTime) =>
                  reqs'[r].status = 404]_vars
    /\ [](\A id \in DOMAIN store :
            store[id].deletedAt # NullTime =>
                /\ findOneWithDetails(store, id) = None
                /\ \A q \in FilterQueries : ~WhereMatches(store[id], q))
    /\ [][DOMAIN store \subseteq DOMAIN store']_vars

\* C6 witness: a soft-deleted record, made available again by a later update,
\* was asked for by id and the request was answered NotFound
C6_Witness ==
    \E r \in DOMAIN reqs :
        /\ reqs[r].op = "findOne"
        /\ reqs[r].status = 404
        /\ reqs[r].id \in DOMAIN store
        /\ store[reqs[r].id].deletedAt # NullTime
        /\ store[reqs[r].id].isAvailable

-----------------------------------------------------------------------------
(* C7 *)

\* C7: a second softDelete(id), after the first has completed, answers NotFound
\* and leaves the record's isAvailable and deletedAt (the whole store) as the
\* first call set them.
C7_SecondSoftDeleteNotFound ==
    [][\A r \in DOMAIN reqs :
          (/\ Arrives(r, "remove")
           /\ reqs'[r].id \in DOMAIN store
           /\ store[reqs'[r].id].deletedAt # NullTime) =>
              /\ reqs'[r].pc = "done"
              /\ reqs'[r].status = 404
              /\ store' = store]_vars

\* C7 witness: a soft-delete of a record deleted at an earlier instant was
\* answered NotFound
C7_Witness ==
    \E r \in DOMAIN reqs :
        /\ reqs[r].op = "remove"
        /\ reqs[r].status = 404
        /\ reqs[r].id \in DOMAIN store
        /\ store[reqs[r].id].deletedAt # NullTime
        /\ store[reqs[r].id].deletedAt < clock

-----------------------------------------------------------------------------
(* C8 *)

\* A record that is not soft-deleted holds this unit number
UnitNumberInUse(s, unitNumber) ==
    \E j \in DOMAIN s : s[j].deletedAt = NullTime /\ s[j].unitNumber = unitNumber

\* C8: creating a record whose unitNumber is that of an existing non-deleted
\* record fails with Conflict (409) and leaves the store as it was.
C8_DuplicateCreateConflicts ==
    [][\A r \in DOMAIN reqs :
          (/\ Arrives(r, "create")
           /\ UnitNumberInUse(store, Get(reqs'[r].dto).unitNumber)) =>
              /\ reqs'[r].status = 409
              /\ store' = store]_vars

\* C8 witness: a create was answered 409 for a unit number a live record holds
C8_Witness ==
    \E r \in DOMAIN reqs :
        /\ reqs[r].op = "create"
        /\ reqs[r].status = 409
        /\ UnitNumberInUse(store, Get(reqs[r].dto).unitNumber)

-----------------------------------------------------------------------------
(* C9 *)

\* C9: in every reachable state no two records with deletedAt = null share a
\* unitNumber, updates that change unitNumber included.
C9_UnitNumberUnique ==
    \A i, j \in DOMAIN store :
        (i # j /\ store[i].deletedAt = NullTime /\ store[j].deletedAt = NullTime)
            => store[i].unitNumber # store[j].unitNumber

\* C9 witness: two live records, and an update that would have given one the
\* unit number of the other was refused
C9_Witness ==
    /\ \E i, j \in DOMAIN store :
          i # j /\ store[i].deletedAt = NullTime /\ store[j].deletedAt = NullTime
    /\ \E r \in DOMAIN reqs : reqs[r].op = "update" /\ reqs[r].status = 500

-----------------------------------------------------------------------------
(* C10 *)

\* C10: the viewCount of every record never decreases and changes only through
\* the increment-view operation: create sets it to 0, update and softDelete
\* never modify it.
C10_ViewCountOnlyIncrements ==
    [][\A id \in DOMAIN store' :
          IF id \in DOMAIN store
          THEN /\ store'[id].viewCount >= store[id].viewCount
               /\ store'[id].viewCount # store[id].viewCount =>
                     \E r \in DOMAIN reqs :
                         /\ reqs[r].pc = "findOne_increment"
                         /\ reqs[r].id = id
                         /\ reqs'[r].pc = "findSimilar_find"
          ELSE store'[id].viewCount = 0]_vars

\* C10 witness: a record fetched before was then given another unit number by
\* an update and soft-deleted, and still has its views
C10_Witness ==
    \E id \in DOMAIN store :
        /\ store[id].viewCount > 0
        /\ store[id].slug # generateSlug(store[id].unitName, store[id].unitNumber)
        /\ store[id].deletedAt # NullTime

-----------------------------------------------------------------------------
(* C11 *)

MaxPage == 3        \* pages a listing request asks for
MaxLimit == 2       \* page sizes a listing request asks for

\* PaginationDto values handed to findAllPaginated, with no filter
PageQueries ==
    { [NoQuery EXCEPT !.page = Some(p), !.limit = Some(l)] :
        p \in 1..MaxPage, l \in 1..MaxLimit }

\* C11: in every envelope findAllPaginated builds, with limit >= 1 and page >= 1,
\* totalPages is ceil(total / limit) (the one n with (n-1)*limit < total <= n*limit),
\* hasNext is page < totalPages and hasPrev is page > 1.
C11_PaginationMeta ==
    \A q \in PageQueries :
        \A result \in findAllPaginated(store, q) :
            LET m == result.pagination
            IN  /\ m.page = Get(q.page) /\ m.limit = Get(q.limit)
                /\ m.total >= 0
                /\ (m.totalPages - 1) * m.limit < m.total
                /\ m.total <= m.totalPages * m.limit
                /\ m.hasNext <=> (m.page < m.totalPages)
                /\ m.hasPrev <=> (m.page > 1)

\* C11 witness: two visible records listed with page 1 and limit 2 make one page
\* with neither a next nor a previous one, while page 1 with limit 1 has a next
C11_Witness ==
    /\ \E result \in findAllPaginated(store,
                         [NoQuery EXCEPT !.page = Some(1), !.limit = Some(2)]) :
          /\ result.pagination.total = 2
          /\ result.pagination.totalPages = 1
          /\ ~result.pagination.hasNext
          /\ ~result.pagination.hasPrev
    /\ \E result \in findAllPaginated(store,
                         [NoQuery EXCEPT !.page = Some(1), !.limit = Some(1)]) :
          result.pagination.totalPages = 2 /\ result.pagination.hasNext

-----------------------------------------------------------------------------
(* C12 *)

Max2(a, b) == IF a > b THEN a ELSE b

\* Each filter alone, or none, with each page and page size
SliceQueries ==
    { [f EXCEPT !.page = p.page, !.limit = p.limit] :
        f \in {NoQuery} \cup OneFilter, p \in PageQueries }

\* C12: for a fixed store and fixed filters, pagination.total is the number of
\* visible records that satisfy the supplied filters, whatever the page and the
\* limit, and data is the slice of the matching records at offset
\* (page-1)*limit: its length is min(limit, max(0, total - (page-1)*limit)).
C12_TotalAndSlice ==
    \A q \in SliceQueries :
        \A result \in findAllPaginated(store, q) :
            LET total == Cardinality({id \in DOMAIN store :
                                        /\ Visible(store[id])
                                        /\ SatisfiesFilters(store[id], q)})
                skip == (Get(q.page) - 1) * Get(q.limit)
            IN  /\ result.pagination.total = total
                /\ Len(result.data) = Min2(Get(q.limit), Max2(0, total - skip))

-----------------------------------------------------------------------------
(* C13 *)

\* The listing requests that supply price or area bounds and nothing else
RangeQueries ==
    { q \in FilterQueries :
        /\ q # NoQuery
        /\ q.search = None /\ q.project = None /\ q.location = None
        /\ q.bedrooms = None /\ q.bathrooms = None }

\* min <= v <= max, each bound counting only when supplied
InRange(v, min, max) ==
    /\ IsSome(min) => Get(min) <= v
    /\ IsSome(max) => v <= Get(max)

\* C13: the price and area filters of the listing are inclusive bounds: with
\* both ends supplied a visible record is selected iff min <= value <= max, with
\* one end supplied iff it is on the right side of that end; for minPrice and
\* maxPrice on price and for minArea and maxArea on area.
C13_InclusiveBounds ==
    \A id \in DOMAIN store :
        Visible(store[id]) =>
            \A q \in RangeQueries :
                WhereMatches(store[id], q) <=>
                    /\ InRange(store[id].price, q.minPrice, q.maxPrice)
                    /\ InRange(store[id].area, q.minArea, q.maxArea)

-----------------------------------------------------------------------------
(* C14 *)

\* A DTO handed to the service carries a NaN
HasNaN(q) ==
    \E f \in {"minPrice", "maxPrice", "bedrooms", "bathrooms", "minArea", "maxArea",
              "page", "limit"} : q[f] = Some(NaN)

\* The rows come in the order sortBy, sortOrder
InOrder(data, sortBy, sortOrder) ==
    \A i \in DOMAIN data : i < Len(data) =>
        IF sortOrder = "ASC"
        THEN SortKey(data[i], sortBy) <= SortKey(data[i + 1], sortBy)
        ELSE SortKey(data[i], sortBy) >= SortKey(data[i + 1], sortBy)

\* C14: the listing a request is given is ordered by the sortBy field it asks for
\* (price, createdAt, area or bedrooms) in the sortOrder it asks for, and by
\* createdAt descending when it asks for none; a request that asks for an order
\* is not refused for it.
C14_SortedAsRequested ==
    \A r \in DOMAIN reqs :
        /\ (reqs[r].pc = "findAllPaginated" /\ ~HasNaN(Get(reqs[r].query))) =>
              LET query == Get(reqs[r].dto)
                  sortBy == IF IsSome(query.sortBy) THEN Get(query.sortBy) ELSE "createdAt"
                  sortOrder == IF IsSome(query.sortOrder) THEN Get(query.sortOrder) ELSE "DESC"
              IN  \A result \in findAllPaginated(store, Get(reqs[r].query)) :
                      InOrder(result.data, sortBy, sortOrder)
        /\ (reqs[r].op = "findAll" /\ reqs[r].status = 400) =>
              Supplied(Get(reqs[r].dto)) # {"sortBy", "sortOrder"}

-----------------------------------------------------------------------------
(* C15 *)

\* A query string gives a numeric filter a value that is not a number
MalformedNumeric(query) ==
    \E f \in {"minPrice", "maxPrice", "bedrooms", "bathrooms", "minArea", "maxArea"} :
        /\ IsSome(query[f])
        /\ \E i \in DOMAIN Get(query[f]) : Get(query[f])[i] \notin Range(Digits)

\* C15: a listing request whose minPrice, maxPrice, bedrooms, bathrooms, minArea
\* or maxArea is a malformed numeric string is answered 400 before the service
\* is called: it never stands before findAllPaginated with the value coerced
\* (to NaN, to the number its first digits spell) or dropped.
C15_MalformedNumberRejected ==
    \A r \in DOMAIN reqs :
        (/\ reqs[r].op = "findAll"
         /\ IsSome(reqs[r].dto)
         /\ MalformedNumeric(Get(reqs[r].dto))) =>
            /\ reqs[r].pc = "done"
            /\ reqs[r].status = 400

-----------------------------------------------------------------------------
(* C16 *)

\* C16: GET /apartments with valid filter and pagination parameters, or with
\* none, is answered with the envelope {data, pagination, filters} and not with
\* an error, whatever the store holds (the empty store included).
C16_ListingAnswersEnvelope ==
    [][\A r \in DOMAIN reqs :
          (/\ reqs'[r].op = "findAll"
           /\ reqs'[r] # reqs[r]
           /\ reqs'[r].pc = "done"
           /\ IsSome(reqs[r].dto) \/ IsSome(reqs'[r].dto)
           /\ ~MalformedNumeric(Get(IF Free(r) THEN reqs'[r].dto ELSE reqs[r].dto))) =>
              /\ reqs'[r].status = 200
              /\ IsSome(reqs'[r].body)
              /\ DOMAIN Get(reqs'[r].body) = {"data", "pagination", "filters"}]_vars

-----------------------------------------------------------------------------
(* C17 *)

\* The records similar to record id: visible, other than id, with its number of
\* bedrooms and a price within 20% of its price, both ends included
ExpectedSimilar(s, id) ==
    { s[j] : j \in { k \in DOMAIN s :
                       /\ k # id
                       /\ Visible(s[k])
                       /\ s[k].bedrooms = s[id].bedrooms
                       /\ 4 * s[id].price <= 5 * s[k].price
                       /\ 5 * s[k].price <= 6 * s[id].price } }

\* C17: the similar records attached to a fetched record are exactly the first
\* `limit` records, by viewCount descending, of the visible records other than
\* it with the same bedrooms and a price p with 0.8*price <= p <= 1.2*price.
C17_SimilarWithinTwentyPercent ==
    \A r \in DOMAIN reqs :
        (reqs[r].op = "findOne" /\ reqs[r].pc = "done" /\ reqs[r].status = 200) =>
            LET expected == ExpectedSimilar(store, reqs[r].id)
                similar == reqs[r].similar
            IN  /\ Len(similar) = Min2(SimilarLimit, Cardinality(expected))
                /\ \A i \in DOMAIN similar : similar[i] \in expected
                /\ \A i, j \in DOMAIN similar : i # j => similar[i] # similar[j]
                /\ \A i \in DOMAIN similar : i < Len(similar) =>
                      similar[i].viewCount >= similar[i + 1].viewCount
                /\ \A row \in expected :
                      (\A i \in DOMAIN similar : similar[i] # row) =>
                          \A i \in DOMAIN similar : similar[i].viewCount >= row.viewCount

-----------------------------------------------------------------------------
(* C18 *)

\* C18: the record a successful GET /apartments/:id answers with carries the
\* incremented viewCount: with no other request in between, the viewCount in
\* the response is the stored viewCount after this request's increment.
C18_ResponseCarriesIncrement ==
    \A r \in DOMAIN reqs :
        (reqs[r].op = "findOne" /\ reqs[r].pc = "done" /\ reqs[r].status = 200) =>
            Get(reqs[r].body).viewCount = store[reqs[r].id].viewCount

-----------------------------------------------------------------------------
(* C19 *)

\* C19: a successful update(id, partialData) overwrites the supplied fields and
\* nothing else: every other field of the record (id, slug, viewCount,
\* deletedAt, createdAt among them) keeps its value, also when the unit number
\* is changed, and no other record is touched.
C19_UpdateOverwritesOnlySupplied ==
    [][\A r \in DOMAIN reqs :
          (/\ Arrives(r, "update")
           /\ reqs'[r].pc = "update_find"
           /\ reqs'[r].id \in DOMAIN store'
           /\ Visible(store'[reqs'[r].id])) =>
              LET id == reqs'[r].id
                  dto == Get(reqs'[r].dto)
              IN  /\ DOMAIN store' = DOMAIN store
                  /\ \A j \in DOMAIN store : j # id => store'[j] = store[j]
                  /\ \A f \in DOMAIN store[id] :
                        IF f \in Supplied(dto)
                        THEN store'[id][f] = IF f = "location" THEN dto[f] ELSE Get(dto[f])
                        ELSE store'[id][f] = store[id][f]]_vars

\* C19 witness: an update that gave a fetched record another unit number was
\* answered with the record, its slug still the one of the old unit number
C19_Witness ==
    \E r \in DOMAIN reqs :
        /\ reqs[r].op = "update"
        /\ reqs[r].status = 200
        /\ Get(reqs[r].body).slug #
              generateSlug(Get(reqs[r].body).unitName, Get(reqs[r].body).unitNumber)
        /\ Get(reqs[r].body).viewCount > 0

-----------------------------------------------------------------------------
(* C20 *)

\* C20: a statistics report taken with no request in between has
\* unavailableApartments = totalApartments - availableApartments, with
\* totalApartments the records that are not deleted and availableApartments
\* those of them with isAvailable = true; so unavailableApartments is the number
\* of records not deleted with isAvailable = false, and a soft-deleted record is
\* counted in none of the three.
C20_StatsCounts ==
    \A r \in DOMAIN reqs :
        (reqs[r].op = "getStats" /\ reqs[r].pc = "done" /\ reqs[r].status = 200) =>
            LET report == Get(reqs[r].body)
                live == {id \in DOMAIN store : store[id].deletedAt = NullTime}
            IN  /\ report.unavailableApartments =
                      report.totalApartments - report.availableApartments
                /\ report.totalApartments = Cardinality(live)
                /\ report.availableApartments =
                      Cardinality({id \in live : store[id].isAvailable})
                /\ report.unavailableApartments =
                      Cardinality({id \in live : ~store[id].isAvailable})

\* C20 witness: a report over one unavailable record and one soft-deleted record
\* counts one record, none available, one unavailable
C20_Witness ==
    /\ \E r \in DOMAIN reqs :
          /\ reqs[r].op = "getStats" /\ reqs[r].pc = "done"
          /\ Get(reqs[r].body).totalApartments = 1
          /\ Get(reqs[r].body).availableApartments = 0
          /\ Get(reqs[r].body).unavailableApartments = 1
    /\ \E id \in DOMAIN store : store[id].deletedAt # NullTime
    /\ \E id \in DOMAIN store : store[id].deletedAt = NullTime /\ ~store[id].isAvailable

-----------------------------------------------------------------------------
(* C21 *)

\* C21: statistics never yield null or an error on an empty result set: a
\* report taken when no visible record exists has availableApartments = 0,
\* averagePrice = 0, priceRange = {min: 0, max: 0} and empty projectStats and
\* bedroomDistribution, and totalApartments = 0 when the table is empty; no
\* report carries a NaN and the request is answered 200.
C21_EmptyStatsAreZero ==
    \A r \in DOMAIN reqs :
        (reqs[r].op = "getStats" /\ reqs[r].pc = "done") =>
            /\ reqs[r].status = 200
            /\ IsSome(reqs[r].body)
            /\ LET report == Get(reqs[r].body)
               IN  /\ report.averagePrice # NaN
                   /\ report.priceRange.min # NaN
                   /\ report.priceRange.max # NaN
                   /\ (\A id \in DOMAIN store : ~Visible(store[id])) =>
                         /\ report.availableApartments = 0
                         /\ report.averagePrice = 0
                         /\ report.priceRange = [min |-> 0, max |-> 0]
                         /\ report.projectStats = << >>
                         /\ report.bedroomDistribution = << >>
                   /\ store = << >> => report.totalApartments = 0

\* C21 witness: a report taken over a table whose only records are one made
\* unavailable and one soft-deleted: nothing visible, and the zeros reported
C21_Witness ==
    /\ \E r \in DOMAIN reqs :
          /\ reqs[r].op = "getStats" /\ reqs[r].pc = "done"
          /\ Get(reqs[r].body).averagePrice = 0
          /\ Get(reqs[r].body).projectStats = << >>
    /\ Cardinality(DOMAIN store) = 2
    /\ \A id \in DOMAIN store : ~Visible(store[id])

-----------------------------------------------------------------------------
(* C22 *)

\* A record other than id holds this unit number: writing it to id (or to a new
\* record, id = 0) duplicates the unique key
DuplicatesKey(s, id, unitNumber) ==
    \E j \in DOMAIN s : j # id /\ s[j].unitNumber = unitNumber

\* C22: the record endpoints follow the error taxonomy: a request for a record
\* that is missing or filtered out is answered 404 and never 500 (GET, PUT and
\* DELETE of /apartments/:id); a create with a duplicate unit number is answered
\* 409; and an update that sets unitNumber to a value another record holds is
\* answered 409.
C22_ErrorTaxonomy ==
    [][\A r \in DOMAIN reqs :
          /\ (/\ Arrives(r, "findOne")
              /\ findOneWithDetails(store, reqs'[r].id) = None) =>
                reqs'[r].status = 404
          /\ (/\ Arrives(r, "remove")
              /\ findOneWithDetails(store, reqs'[r].id) = None) =>
                reqs'[r].status = 404
          /\ (/\ reqs[r].pc = "update_find" /\ reqs'[r].pc = "done"
              /\ findOneWithDetails(store, reqs[r].id) = None) =>
                reqs'[r].status = 404
          /\ (/\ Arrives(r, "create")
              /\ DuplicatesKey(store, 0, Get(reqs'[r].dto).unitNumber)) =>
                reqs'[r].status = 409
          /\ (/\ Arrives(r, "update")
              /\ reqs'[r].id \in DOMAIN store
              /\ IsSome(Get(reqs'[r].dto).unitNumber)
              /\ DuplicatesKey(store, reqs'[r].id, Get(Get(reqs'[r].dto).unitNumber))) =>
                reqs'[r].status = 409]_vars

-----------------------------------------------------------------------------
(* C23 *)

\* C23: the slug create stores is derived from unitName + '-' + unitNumber by
\* lower-casing and collapsing every run of non-alphanumeric characters to one
\* '-': for all inputs it holds only a-z, 0-9 and '-', never two '-' in a row,
\* neither starts nor ends with '-', and deriving again from the slug itself
\* gives the slug back.
C23_SlugWellFormed ==
    \A id \in DOMAIN store :
        LET slug == store[id].slug
        IN  /\ \A i \in DOMAIN slug :
                  slug[i] \in Range(Lowers) \cup Range(Digits) \cup {"-"}
            /\ \A i \in DOMAIN slug :
                  i < Len(slug) => ~(slug[i] = "-" /\ slug[i + 1] = "-")
            /\ slug # << >> => (slug[1] # "-" /\ slug[Len(slug)] # "-")
            /\ TrimDashes(CollapseRuns(toLowerCase(slug), FALSE)) = slug

\* C23 witness: the name " A" with the number "--" is stored under the slug "a":
\* lower-cased, the blank and the run of dashes collapsed, both ends trimmed
C23_Witness ==
    \E id \in DOMAIN store :
        /\ store[id].unitName = <<" ", "A">>
        /\ store[id].unitNumber = <<"-", "-">>
        /\ store[id].slug = <<"a">>

-----------------------------------------------------------------------------
(* C24 *)

\* The project names a request for a project's apartments gives
ProjectNames == {ProjMH, ProjGR, <<"g">>, <<"m">>}

\* The record with this id is among the rows of a result
Holds(rows, id) == \E i \in DOMAIN rows : rows[i].id = id

\* C24: soft deletion is absorbing.  A record with deletedAt set keeps it set
\* through every later operation (update with isAvailable = true included,
\* softDelete, getById, create) and stays in the table; and in every state it is
\* returned by no read: not by getById, the listing, the similar records of
\* another record, the featured records or the records of a project, nor is it
\* in the answer a GET /apartments/:id has just given.
C24_SoftDeleteAbsorbing ==
    /\ [][\A id \in DOMAIN store :
            store[id].deletedAt # NullTime =>
                id \in DOMAIN store' /\ store'[id].deletedAt # NullTime]_vars
    /\ [](\A id \in DOMAIN store :
            store[id].deletedAt # NullTime =>
                /\ findOneWithDetails(store, id) = None
                /\ \A q \in FilterQueries :
                      \A result \in findAllPaginated(store, q) : ~Holds(result.data, id)
                /\ \A other \in DOMAIN store, asString \in BOOLEAN :
                      \A similar \in findSimilarQuery(store, other, store[other],
                                                      asString, SimilarLimit) :
                          ~Holds(similar, id)
                /\ \A rows \in getFeaturedApartments(store, FeaturedLimit) :
                      ~Holds(rows, id)
                /\ \A projectName \in ProjectNames :
                      \A rows \in findByProject(store, projectName) : ~Holds(rows, id)
                /\ \A r \in DOMAIN reqs :
                      (reqs[r].op = "findOne" /\ reqs[r].pc = "done"
                       /\ reqs[r].status = 200) =>
                          reqs[r].id # id /\ ~Holds(reqs[r].similar, id))

\* C24 witness: a record soft-deleted at an earlier instant was then updated with
\* isAvailable = true (the update answered 404) and holds isAvailable = true
\* beside its deletedAt, next to a visible record whose reads could list it
C24_Witness ==
    /\ \E r \in DOMAIN reqs :
          /\ reqs[r].op = "update" /\ reqs[r].status = 404
          /\ reqs[r].id \in DOMAIN store
          /\ store[reqs[r].id].deletedAt # NullTime
          /\ store[reqs[r].id].deletedAt < clock
          /\ store[reqs[r].id].isAvailable
    /\ \E other \in DOMAIN store : Visible(store[other])

-----------------------------------------------------------------------------
(* C25 *)

\* C25: under any interleaving of concurrent softDelete(id) requests for one
\* record at most one of them reports success (no two requests stand answered
\* 200 for the same id) and deletedAt is written at most once (no softDelete
\* writes to a record whose deletedAt is already set).
C25_OneSoftDeleteSucceeds ==
    /\ [](\A r1, r2 \in DOMAIN reqs :
            (/\ r1 # r2
             /\ reqs[r1].op = "remove" /\ reqs[r1].status = 200
             /\ reqs[r2].op = "remove" /\ reqs[r2].status = 200) =>
                reqs[r1].id # reqs[r2].id)
    /\ [][\A r \in DOMAIN reqs :
            (reqs[r].pc = "softDelete_update" /\ reqs'[r].pc = "done") =>
                store[reqs[r].id].deletedAt = NullTime]_vars

-----------------------------------------------------------------------------
(* C26 *)

\* C26: the viewCount of a record never changes while the record is
\* soft-deleted or unavailable, under any interleaving of getById with
\* softDelete or update on the same record: every step that changes a viewCount
\* changes that of a record visible at that moment.
C26_IncrementOnlyWhenVisible ==
    [][\A id \in DOMAIN store :
          ~Visible(store[id]) => store'[id].viewCount = store[id].viewCount]_vars

-----------------------------------------------------------------------------
(* C27 *)

\* C27: every statistics report has unavailableApartments >= 0, that is
\* availableApartments <= totalApartments, also when create, update or
\* softDelete requests run between the report's count queries.
C27_UnavailableNotNegative ==
    \A r \in DOMAIN reqs :
        (reqs[r].op = "getStats" /\ reqs[r].pc = "done") =>
            /\ Get(reqs[r].body).unavailableApartments >= 0
            /\ Get(reqs[r].body).availableApartments <= Get(reqs[r].body).totalApartments

-----------------------------------------------------------------------------
(* C28 *)

\* C28: update reports success whenever it applied its change to a record that
\* is not deleted (setting isAvailable = false on a visible record, or editing a
\* record whose isAvailable is already false, included): the request is
\* answered 200 with the record as stored, and not 404.
C28_UpdateReportsSuccess ==
    [][\A r \in DOMAIN reqs :
          (/\ reqs[r].pc = "update_find" /\ reqs'[r].pc = "done"
           /\ Exists(store, reqs[r].id)
           /\ store[reqs[r].id] = PatchRow(store[reqs[r].id], Get(reqs[r].dto))) =>
              /\ reqs'[r].status = 200
              /\ reqs'[r].body = Some(store[reqs[r].id])]_vars

-----------------------------------------------------------------------------
(* C29 *)

\* Listing requests with fixed filters (none), each order and each page size
PagedQueries ==
    { [NoQuery EXCEPT !.sortBy = sortBy, !.limit = Some(limit)] :
        sortBy \in {None, Some("price"), Some("bedrooms")}, limit \in 1..MaxLimit }

\* The answers to q asked for each page 1..totalPages in turn, the store not
\* changing in between: one envelope per page, each from its own query
PagesOf(s, q) ==
    LET totalPages == CeilDiv(Cardinality(Matching(s, q)), Get(q.limit))
        Page(p) == findAllPaginated(s, [q EXCEPT !.page = Some(p)])
    IN  { pages \in [1..totalPages -> UNION {Page(p) : p \in 1..totalPages}] :
            \A p \in 1..totalPages : pages[p] \in Page(p) }

\* C29: with fixed filters and limit and no write in between, the pages
\* 1..totalPages hold every matching visible record exactly once (none is
\* skipped and none is on two pages), also when records tie on the sort key.
C29_PagesPartitionTheMatches ==
    \A q \in PagedQueries :
        \A pages \in PagesOf(store, q) :
            \A row \in Matching(store, q) :
                Cardinality({ at \in {<<p, i>> : p \in DOMAIN pages, i \in 1..Get(q.limit)} :
                                /\ at[2] \in DOMAIN pages[at[1]].data
                                /\ pages[at[1]].data[at[2]].id = row.id }) = 1

-----------------------------------------------------------------------------
(* C30 *)

\* The sum of the counts of a report's groups
RECURSIVE SumCounts(_)
SumCounts(groups) ==
    IF groups = << >> THEN 0 ELSE Head(groups).count + SumCounts(Tail(groups))

\* C30: in a statistics report taken with no concurrent write, the counts of
\* projectStats add up to availableApartments and so do those of
\* bedroomDistribution; projectStats is ordered by count descending and
\* bedroomDistribution by bedrooms ascending; no group has count 0 (and no
\* project or bedroom count has two groups).
C30_GroupsAddUp ==
    \A r \in DOMAIN reqs :
        (reqs[r].op = "getStats" /\ reqs[r].pc = "done") =>
            LET report == Get(reqs[r].body)
                projects == report.projectStats
                bedrooms == report.bedroomDistribution
            IN  /\ SumCounts(projects) = report.availableApartments
                /\ SumCounts(bedrooms) = report.availableApartments
                /\ \A i \in DOMAIN projects :
                      i < Len(projects) => projects[i].count >= projects[i + 1].count
                /\ \A i \in DOMAIN bedrooms :
                      i < Len(bedrooms) => bedrooms[i].bedrooms < bedrooms[i + 1].bedrooms
                /\ \A i \in DOMAIN projects : projects[i].count > 0
                /\ \A i \in DOMAIN bedrooms : bedrooms[i].count > 0
                /\ \A i, j \in DOMAIN projects :
                      i # j => projects[i].project # projects[j].project

\* C30 witness: a report over three visible records: two of project MH before
\* one of GR, one with 1 bedroom before two with 2
C30_Witness ==
    \E r \in DOMAIN reqs :
        /\ reqs[r].op = "getStats" /\ reqs[r].pc = "done"
        /\ Get(reqs[r].body).availableApartments = 3
        /\ Get(reqs[r].body).projectStats =
              << [project |-> ProjMH, count |-> 2, averagePrice |-> 110],
                 [project |-> ProjGR, count |-> 1, averagePrice |-> 140] >>
        /\ Get(reqs[r].body).bedroomDistribution =
              << [bedrooms |-> 1, count |-> 1], [bedrooms |-> 2, count |-> 2] >>

====
